---- MODULE Spec2Model ----
(***************************************************************************)
(* Model of qpy/portfolio.py: the Stock and Portfolio classes and the      *)
(* buildPortfolio front end.                                                *)
(*                                                                          *)
(* A pandas DataFrame is a record                                           *)
(*   [columns : sequence of labels, index : sequence of dates,              *)
(*    data : sequence of value sequences, one per column].                  *)
(* An optional field ("None" or a value) is a sequence of length 0 or 1.    *)
(* Invested amounts (FMV) stand for floats; only their sign and their sums  *)
(* matter to the code modelled here.                                        *)
(***************************************************************************)
EXTENDS Integers, Sequences, FiniteSets, TLC

\* ------------------------------------------------------------------------
\* Bounds and input sets
\* ------------------------------------------------------------------------

\* addStock is called at most MaxRows times on one Portfolio instance
MaxRows == 2

\* default annualisation factor of every comp* method (freq=252)
DefaultFreq == 252
\* another annualisation factor a caller may pass (21 trading days a month)
OtherFreq == 21
Freqs == {DefaultFreq, OtherFreq}

\* the risk free rate is a float; it is modelled in units of 1/1000
DefaultRiskFreeRate == 5
OtherRiskFreeRate == 10
RiskFreeRates == {DefaultRiskFreeRate, OtherRiskFreeRate}

\* A Python string is a sequence of tokens (characters or fixed fragments),
\* so that the substring, prefix and replace operations of the code can be
\* computed
Names == {<<"A">>, <<"B">>}
FMVs == {-1, 2, 3}
\* the date indices a Stock's price history may carry (sorted, unique)
Indexes == {<<1, 2>>, <<1, 3>>, <<1, 2, 3>>}

None == <<>>
Some(v) == <<v>>
IsNone(o) == o = <<>>
Val(o) == o[1]

OK == "OK"

RECURSIVE SumSeq(_)
SumSeq(s) == IF s = <<>> THEN 0 ELSE s[1] + SumSeq(Tail(s))

Range(s) == {s[i] : i \in 1..Len(s)}

\* ------------------------------------------------------------------------
\* Stock
\* ------------------------------------------------------------------------

\* _getQuandlDataColumnLabel: "<stock_name> - <data_label>"
_getQuandlDataColumnLabel(stock_name, data_label) ==
    stock_name \o <<" - ">> \o data_label

\* label of a further data column of the stock called n
AltLabel(n) == _getQuandlDataColumnLabel(n, <<"Close">>)

\* the column layouts a Stock called n may be built with
ColumnChoices(n) == {<<n>>, <<AltLabel(n)>>, <<n, AltLabel(n)>>}

\* price of the j-th column at date d of a stock with invested amount f
Price(f, j, d) == 100 + 10 * f + 5 * j + d

MkData(f, cols, idx) ==
    [columns |-> cols,
     index   |-> idx,
     data    |-> [j \in 1..Len(cols) |->
                    [i \in 1..Len(idx) |-> Price(f, j, idx[i])]]]

\* Stock.__init__: keeps name, investment information and price data; no
\* check of the invested amount is made.  (The derived per-stock statistics
\* are functions of stock_data and are not stored in the model.)
Stock(n, f, cols, idx) ==
    [name           |-> n,
     investmentinfo |-> [Name |-> n, FMV |-> f],
     stock_data     |-> MkData(f, cols, idx)]

StockSet ==
    UNION {{Stock(n, f, cols, idx) :
                f \in FMVs, cols \in ColumnChoices(n), idx \in Indexes} :
           n \in Names}

\* the stocks _buildPortfolioFromDf builds from valid investment information:
\* a positive invested amount and one price column labelled with the name
WellFormedStocks ==
    {s \in StockSet : /\ s.investmentinfo.FMV > 0
                      /\ s.stock_data.columns = <<s.name>>}

EmptyFrame == [columns |-> <<>>, index |-> <<>>, data |-> <<>>]

\* ------------------------------------------------------------------------
\* pandas operations used by Portfolio
\* ------------------------------------------------------------------------

\* the index pandas gives an empty frame on the first insert of n values
RangeIndex(n) == [i \in 1..n |-> i - 1]

\* DataFrame.insert(loc=len(columns), column=label, value=values) with
\* allow_duplicates=False: an existing label or a wrong length is a
\* ValueError, and the frame is left as it was
Insert(df, label, values) ==
    LET idx == IF Len(df.index) = 0 THEN RangeIndex(Len(values)) ELSE df.index
    IN  IF Len(values) # Len(idx) \/ label \in Range(df.columns)
        THEN [df |-> df, err |-> "ValueError"]
        ELSE [df  |-> [columns |-> Append(df.columns, label),
                       index   |-> idx,
                       data    |-> Append(df.data, values)],
              err |-> OK]

\* DataFrame.set_index(values, inplace=True)
SetIndex(df, values) == [df EXCEPT !.index = values]

\* the new row put in front of the table instead of after its last row
AppendRowFirst(rows, info) == <<info>> \o rows

\* DataFrame.append(row, ignore_index=True) on the investment table
AppendRow(rows, info) == Append(rows, info)

\* portfolio.FMV / portfolio['FMV']
FMVColumn(rows) == [i \in 1..Len(rows) |-> rows[i].FMV]

\* ------------------------------------------------------------------------
\* qpy.pf_returns and qpy.pf_quants (imported by portfolio.py): results are
\* kept as terms over exact fractions <<numerator, denominator>>
\* ------------------------------------------------------------------------

\* dailyReturns of one price column: (p[t] - p[t-1]) / p[t-1], t > 1
dailyReturnsCol(p) == [t \in 1..(Len(p) - 1) |-> <<p[t + 1] - p[t], p[t]>>]

dailyReturns(df) == [j \in 1..Len(df.columns) |-> dailyReturnsCol(df.data[j])]

\* historicalMeanReturn: per column, mean of the daily returns times freq
historicalMeanReturn(df, freq) ==
    [j \in 1..Len(df.columns) |->
        [mean |-> dailyReturnsCol(df.data[j]), freq |-> freq]]

\* weightedMean(means, weights): dot product; lengths must match
weightedMean(means, weights) ==
    IF Len(means) # Len(weights)
    THEN [val |-> None, err |-> "ValueError"]
    ELSE [val |-> Some([means |-> means, weights |-> weights]), err |-> OK]

\* weightedStd(cov, weights) = sqrt(w^T cov w); dimensions must match
weightedStd(cov, weights) ==
    IF Len(cov) # Len(weights)
    THEN [val |-> None, err |-> "ValueError"]
    ELSE [val |-> Some([cov |-> cov, weights |-> weights]), err |-> OK]

\* sharpeRatio(expectedReturn, volatility, riskFreeRate)
\*   = (expectedReturn - riskFreeRate) / volatility;
\* a None operand is a TypeError of the subtraction or division
sharpeRatio(er, vol, r) ==
    IF IsNone(er) \/ IsNone(vol)
    THEN [val |-> None, err |-> "TypeError"]
    ELSE [val |-> Some([er |-> Val(er), r |-> r, vol |-> Val(vol)]), err |-> OK]

\* optimisePfMC(data, num_trials, total_investment, riskFreeRate, freq,
\* initial_weights): the Monte Carlo search only reads its inputs; a number
\* of trials that is not positive is an input error.  The result is kept
\* as a term over the inputs.
optimisePfMC(data, num_trials, total_investment, riskFreeRate, freq, initial_weights) ==
    IF num_trials <= 0
    THEN [val |-> None, err |-> "ValueError"]
    ELSE [val |-> Some([data             |-> data,
                        num_trials       |-> num_trials,
                        total_investment |-> total_investment,
                        riskFreeRate     |-> riskFreeRate,
                        freq             |-> freq,
                        initial_weights  |-> initial_weights]),
          err |-> OK]

\* ------------------------------------------------------------------------
\* Portfolio: methods as operators on the record of the instance's fields;
\* each returns the instance after the call and the exception raised, if any
\* ------------------------------------------------------------------------

\* Portfolio.__init__ (the assignment of None to totalinvestment goes through
\* the setter, which stores nothing)
NewPortfolio ==
    [portfolio       |-> <<>>,
     stocks          |-> [n \in {} |-> n],
     pf_stock_data   |-> EmptyFrame,
     expectedReturn  |-> None,
     volatility      |-> None,
     sharpe          |-> None,
     skew            |-> None,
     kurtosis        |-> None,
     totalinvestment |-> None]

\* a Python value handed to the totalinvestment setter
NoneValue == [kind |-> "None", v |-> 0]
Number(n) == [kind |-> "number", v |-> n]
NotANumber == [kind |-> "other", v |-> 0]

\* totalinvestment.setter
SetTotalinvestment(self, val) ==
    IF val.kind = "None" THEN [self |-> self, err |-> OK]
    ELSE IF val.kind # "number" THEN [self |-> self, err |-> "ValueError"]
    ELSE IF val.v <= 0 THEN [self |-> self, err |-> "ValueError"]
    ELSE [self |-> [self EXCEPT !.totalinvestment = Some(val.v)], err |-> OK]

\* dict.setdefault(name, stock): an entry already present is kept
UpdateStocksKeep(stocks, stock) ==
    [n \in (DOMAIN stocks) \cup {stock.name} |->
        IF n \in DOMAIN stocks THEN stocks[n] ELSE stock]

\* dict.update({name: stock}) on the stocks mapping
UpdateStocks(stocks, stock) ==
    [n \in (DOMAIN stocks) \cup {stock.name} |->
        IF n = stock.name THEN stock ELSE stocks[n]]

RECURSIVE InsertColumns(_, _, _)
\* the loop of _addStockData from column j of df on
InsertColumns(pfdata, df, j) ==
    IF j > Len(df.columns) THEN [df |-> pfdata, err |-> OK]
    ELSE LET r == Insert(pfdata, df.columns[j], df.data[j])
         IN  IF r.err # OK THEN r ELSE InsertColumns(r.df, df, j + 1)

\* self.pf_stock_data = df: the stock's table takes the place of the
\* aggregated one
_addStockDataReplace(self, df) ==
    [self |-> [self EXCEPT !.pf_stock_data = df], err |-> OK]

\* Portfolio._addStockData
_addStockData(self, df) ==
    LET r == InsertColumns(self.pf_stock_data, df, 1)
    IN  IF r.err # OK
        THEN [self |-> [self EXCEPT !.pf_stock_data = r.df], err |-> r.err]
        ELSE [self |-> [self EXCEPT !.pf_stock_data = SetIndex(r.df, df.index)],
              err  |-> OK]

\* Portfolio.compPfWeights: portfolio['FMV'] / totalinvestment
compPfWeights(self) ==
    IF Len(self.portfolio) = 0 THEN [val |-> <<>>, err |-> "KeyError"]
    ELSE IF IsNone(self.totalinvestment)
    THEN [val |-> <<>>, err |-> "AttributeError"]
    ELSE [val |-> [i \in 1..Len(self.portfolio) |->
                     <<self.portfolio[i].FMV, Val(self.totalinvestment)>>],
          err |-> OK]

\* Portfolio.compPfExpectedReturn
compPfExpectedReturn(self, freq) ==
    LET pf_return_means == historicalMeanReturn(self.pf_stock_data, freq)
        weights == compPfWeights(self)
    IN  IF weights.err # OK THEN [self |-> self, err |-> weights.err]
        ELSE LET expectedReturn == weightedMean(pf_return_means, weights.val)
             IN  IF expectedReturn.err # OK
                 THEN [self |-> self, err |-> expectedReturn.err]
                 ELSE [self |-> [self EXCEPT
                                   !.expectedReturn = expectedReturn.val],
                       err  |-> OK]

\* Portfolio.compCovPf: covariance matrix of the daily returns, one row per
\* column of pf_stock_data
compCovPf(self) == dailyReturns(self.pf_stock_data)

\* Portfolio.compPfVolatility
compPfVolatility(self, freq) ==
    LET cov == compCovPf(self)
        weights == compPfWeights(self)
    IN  IF weights.err # OK THEN [self |-> self, err |-> weights.err]
        ELSE LET std == weightedStd(cov, weights.val)
             IN  IF std.err # OK THEN [self |-> self, err |-> std.err]
                 ELSE [self |-> [self EXCEPT !.volatility =
                                   Some([std |-> Val(std.val), freq |-> freq])],
                       err  |-> OK]

\* Portfolio.compPfSharpe
compPfSharpe(self, riskFreeRate) ==
    LET sharpe == sharpeRatio(self.expectedReturn, self.volatility, riskFreeRate)
    IN  IF sharpe.err # OK THEN [self |-> self, err |-> sharpe.err]
        ELSE [self |-> [self EXCEPT !.sharpe = sharpe.val], err |-> OK]

\* Portfolio.__compPfSkew: pf_stock_data.skew(), one entry per column
compPfSkew(self) ==
    Some([j \in 1..Len(self.pf_stock_data.columns) |->
            [skew |-> self.pf_stock_data.data[j]]])

\* Portfolio.__compPfKurtosis: pf_stock_data.kurt(), one entry per column
compPfKurtosis(self) ==
    Some([j \in 1..Len(self.pf_stock_data.columns) |->
            [kurt |-> self.pf_stock_data.data[j]]])

\* the value of an expression evaluated once: the element of a singleton
Only(S) == CHOOSE x \in S : TRUE

\* Portfolio.addStock: each step runs on the instance the step before left,
\* and the exception of a step ends the method
addStock(self, stock) ==
    LET s1 == [self EXCEPT
                 !.stocks = UpdateStocks(self.stocks, stock),
                 !.portfolio = AppendRow(self.portfolio, stock.investmentinfo)]
        setSkewKurtosis(r) ==
            IF r.err # OK THEN r
            ELSE [self |-> [r.self EXCEPT !.skew = compPfSkew(r.self),
                                          !.kurtosis = compPfKurtosis(r.self)],
                  err  |-> OK]
        setSharpe(r) ==
            IF r.err # OK THEN r
            ELSE Only({setSkewKurtosis(x) :
                         x \in {compPfSharpe(r.self, DefaultRiskFreeRate)}})
        setVolatility(r) ==
            IF r.err # OK THEN r
            ELSE Only({setSharpe(x) :
                         x \in {compPfVolatility(r.self, DefaultFreq)}})
        setExpectedReturn(r) ==
            IF r.err # OK THEN r
            ELSE Only({setVolatility(x) :
                         x \in {compPfExpectedReturn(r.self, DefaultFreq)}})
        setTotal(r) ==
            IF r.err # OK THEN r
            ELSE Only({setExpectedReturn(x) :
                         x \in {SetTotalinvestment(r.self,
                                  Number(SumSeq(FMVColumn(r.self.portfolio))))}})
    IN  Only({setTotal(x) : x \in {_addStockData(s1, stock.stock_data)}})

\* Portfolio.optimisePortfolio: reads the instance and hands the price table
\* and the weights to optimisePfMC; total_investment None stands for the
\* instance's own totalinvestment
optimisePortfolio(self, total_investment, num_trials, riskFreeRate, freq) ==
    IF total_investment.kind = "None" /\ IsNone(self.totalinvestment)
    THEN [self |-> self, val |-> None, err |-> "AttributeError"]
    ELSE LET total == IF total_investment.kind = "None"
                      THEN Val(self.totalinvestment) ELSE total_investment.v
             weights == compPfWeights(self)
         IN  IF weights.err # OK
             THEN [self |-> self, val |-> None, err |-> weights.err]
             ELSE LET r == optimisePfMC(self.pf_stock_data, num_trials, total,
                                        riskFreeRate, freq, weights.val)
                  IN  [self |-> self, val |-> r.val, err |-> r.err]

\* ------------------------------------------------------------------------
\* Strings and frames used by the builder functions
\* ------------------------------------------------------------------------

\* Python's "a in b" on strings
IsSubstring(a, b) ==
    \E k \in 0..(Len(b) - Len(a)) : SubSeq(b, k + 1, k + Len(a)) = a

\* s.startswith('WIKI/')
StartsWithWiki(s) == Len(s) > 0 /\ s[1] = "WIKI/"

\* s.replace('WIKI/', '')
RemoveWiki(s) == SelectSeq(s, LAMBDA tok : tok # "WIKI/")

\* position of a label among the columns of a frame
ColumnOf(df, label) ==
    CHOOSE j \in 1..Len(df.columns) : df.columns[j] = label

\* stock_data.loc[:, labels]
Loc(df, labels) ==
    [columns |-> labels,
     index   |-> df.index,
     data    |-> [k \in 1..Len(labels) |-> df.data[ColumnOf(df, labels[k])]]]

\* stock_data.rename(columns={old[k]: new[k]}): a label that is a key of the
\* mapping is replaced by the value of its last entry
RenameColumns(df, old, new) ==
    LET hits(label) == {k \in 1..Len(old) : old[k] = label}
        last(S) == CHOOSE k \in S : \A m \in S : m <= k
    IN  [df EXCEPT !.columns =
            [j \in 1..Len(df.columns) |->
                IF hits(df.columns[j]) = {} THEN df.columns[j]
                ELSE new[last(hits(df.columns[j]))]]]

\* stock_data.filter(regex=name): the columns whose label contains a match
\* of the pattern, which for a plain name is the name as a substring
FilterRegex(df, name) ==
    LET keep == SelectSeq([j \in 1..Len(df.columns) |-> j],
                          LAMBDA j : IsSubstring(name, df.columns[j]))
    IN  [columns |-> [k \in 1..Len(keep) |-> df.columns[keep[k]]],
         index   |-> df.index,
         data    |-> [k \in 1..Len(keep) |-> df.data[keep[k]]]]

\* pf_information.Name.values
NameValues(pf_information) ==
    [i \in 1..Len(pf_information) |-> pf_information[i].Name]

\* ------------------------------------------------------------------------
\* Builder functions
\* ------------------------------------------------------------------------

\* _correctQuandlRequestStockName: every name leads with "WIKI/"
_correctQuandlRequestStockName(names) ==
    [i \in 1..Len(names) |->
        IF StartsWithWiki(names[i]) THEN names[i] ELSE <<"WIKI/">> \o names[i]]

\* _stocknamesInDataColumns: some name is contained in some column label
_stocknamesInDataColumns(names, df) ==
    \E i \in 1..Len(names) : \E j \in 1..Len(df.columns) :
        IsSubstring(names[i], df.columns[j])

\* the label _getStocksDataColumns picks for names[i] and data column col;
\* <<>> if none of the three spellings is a column label
PickColumn(df, names, reqnames, i, col) ==
    IF names[i] \in Range(df.columns) THEN <<names[i]>>
    ELSE IF _getQuandlDataColumnLabel(reqnames[i], col) \in Range(df.columns)
    THEN <<_getQuandlDataColumnLabel(reqnames[i], col)>>
    ELSE IF _getQuandlDataColumnLabel(names[i], col) \in Range(df.columns)
    THEN <<_getQuandlDataColumnLabel(names[i], col)>>
    ELSE <<>>

\* _getStocksDataColumns with one data column label (cols = [col])
_getStocksDataColumns(stock_data, names, col) ==
    LET reqnames == _correctQuandlRequestStockName(names)
        picked == [i \in 1..Len(names) |->
                      PickColumn(stock_data, names, reqnames, i, col)]
    IN  IF \E i \in 1..Len(names) : picked[i] = <<>>
        THEN [df |-> stock_data, err |-> "ValueError"]
        ELSE LET reqcolnames == [i \in 1..Len(names) |-> picked[i][1]]
                 selected == Loc(stock_data, reqcolnames)
                 renamed == RenameColumns(selected, reqcolnames,
                               [k \in 1..Len(reqcolnames) |->
                                   RemoveWiki(reqcolnames[k])])
             IN  [df  |-> RenameColumns(renamed,
                             [i \in 1..Len(names) |->
                                 _getQuandlDataColumnLabel(names[i], col)],
                             names),
                  err |-> OK]

\* the only data column buildPortfolio asks for (datacolumns=["Adj. Close"])
AdjClose == <<"Adj. Close">>

RECURSIVE AddRows(_, _, _, _, _)
\* the loop of _buildPortfolioFromDf from row i of pf_information on; made
\* is the sequence of addStock calls made so far
AddRows(self, made, pf_information, stock_data, i) ==
    IF i > Len(pf_information) THEN [self |-> self, err |-> OK, made |-> made]
    ELSE LET name == pf_information[i].Name
             stock_stock_data == FilterRegex(stock_data, name)
             stock == [name           |-> name,
                       investmentinfo |-> pf_information[i],
                       stock_data     |-> stock_stock_data]
         IN  IF Len(stock_stock_data.columns) = 0
             THEN \* Stock.__init__: skew().values[0] of a frame without columns
                  [self |-> self, err |-> "IndexError", made |-> made]
             ELSE LET rest(r) ==
                        LET made2 == Append(made,
                                            [stock |-> stock, err |-> r.err])
                        IN  IF r.err # OK
                            THEN [self |-> r.self, err |-> r.err,
                                  made |-> made2]
                            ELSE AddRows(r.self, made2, pf_information,
                                         stock_data, i + 1)
                  IN  Only({rest(r) : r \in {addStock(self, stock)}})

\* _buildPortfolioFromDf with the default datacolumns
_buildPortfolioFromDf(pf_information, stock_data) ==
    IF ~_stocknamesInDataColumns(NameValues(pf_information), stock_data)
    THEN [self |-> NewPortfolio, err |-> "ValueError", made |-> <<>>]
    ELSE LET r == _getStocksDataColumns(stock_data,
                                        NameValues(pf_information), AdjClose)
         IN  IF r.err # OK
             THEN [self |-> NewPortfolio, err |-> r.err, made |-> <<>>]
             ELSE AddRows(NewPortfolio, <<>>, pf_information, r.df, 1)

\* the price table quandl.get returns for the requested names between
\* start_date and end_date (None: unbounded): per name the columns
\* "<reqname> - Close" and "<reqname> - Adj. Close"
QuandlDates == <<1, 2, 3, 4>>
QuandlFrame(reqnames, start_date, end_date) ==
    LET idx == SelectSeq(QuandlDates,
                         LAMBDA d : /\ (IsNone(start_date) \/ Val(start_date) <= d)
                                    /\ (IsNone(end_date) \/ d <= Val(end_date)))
        labels == [k \in 1..(2 * Len(reqnames)) |->
                     _getQuandlDataColumnLabel(
                         reqnames[(k + 1) \div 2],
                         IF k % 2 = 1 THEN <<"Close">> ELSE AdjClose)]
    IN  [columns |-> labels,
         index   |-> idx,
         data    |-> [k \in 1..Len(labels) |->
                        [i \in 1..Len(idx) |-> 100 + 10 * k + idx[i]]]]

\* _quandlRequest: the request is answered with a table (answered) or fails
_quandlRequest(names, start_date, end_date, answered) ==
    IF answered
    THEN [df  |-> QuandlFrame(_correctQuandlRequestStockName(names),
                              start_date, end_date),
          err |-> OK]
    ELSE [df |-> EmptyFrame, err |-> "QuandlError"]

\* _buildPortfolioFromQuandl
_buildPortfolioFromQuandl(pf_information, names, start_date, end_date, ok) ==
    LET stock_data == _quandlRequest(names, start_date, end_date, ok)
    IN  IF stock_data.err # OK
        THEN [self |-> NewPortfolio, err |-> stock_data.err, made |-> <<>>]
        ELSE _buildPortfolioFromDf(pf_information, stock_data.df)

\* _allListEleInOther
_allListEleInOther(l1, l2) == \A i \in 1..Len(l1) : l1[i] \in l2

\* _anyListEleInOther (its first argument is the set _listComplement built)
_anyListEleInOther(l1, l2) == \E ele \in l1 : ele \in l2

\* _listComplement: set(B) - set(A)
_listComplement(A, B) == Range(B) \ Range(A)

allInputArgs == <<"names", "start_date", "end_date", "stock_data">>

\* kwargs.get(key): the optional value of a keyword argument
Kwarg(kwargs, key) == IF key \in DOMAIN kwargs THEN Some(kwargs[key]) ELSE None

\* buildPortfolio(pf_information, **kwargs); answered: whether a quandl
\* request, if one is made, is answered
buildPortfolio(pf_information, kwargs, answered) ==
    LET pf0 == [self |-> NewPortfolio, err |-> OK, made |-> <<>>]
        keys == DOMAIN kwargs
        \* 1. names, start_date, end_date
        pf1 ==
            IF _allListEleInOther(<<"names">>, keys)
            THEN IF _anyListEleInOther(
                        _listComplement(<<"names", "start_date", "end_date">>,
                                        allInputArgs), keys)
                 THEN [self |-> NewPortfolio, err |-> "ValueError", made |-> <<>>]
                 ELSE _buildPortfolioFromQuandl(pf_information, kwargs["names"],
                          Kwarg(kwargs, "start_date"), Kwarg(kwargs, "end_date"),
                          answered)
            ELSE pf0
        \* 2. stock_data
        pf2 ==
            IF _allListEleInOther(<<"stock_data">>, keys)
            THEN IF _anyListEleInOther(
                        _listComplement(<<"stock_data">>, allInputArgs), keys)
                 THEN [self |-> NewPortfolio, err |-> "ValueError", made |-> <<>>]
                 ELSE _buildPortfolioFromDf(pf_information, kwargs["stock_data"])
            ELSE pf1
    IN  IF pf1.err # OK THEN pf1 ELSE pf2

\* ------------------------------------------------------------------------
\* State: the fields of one Portfolio instance, the addStock calls made on
\* it so far, each with the exception it raised (OK if none), the
\* buildPortfolio call that builds the instance, if one does, and what the
\* last optimisePortfolio call on it returned or raised, if there was one
\* ------------------------------------------------------------------------

VARIABLES portfolio, stocks, pf_stock_data, expectedReturn, volatility,
          sharpe, skew, kurtosis, totalinvestment, calls, call, optimised

vars == <<portfolio, stocks, pf_stock_data, expectedReturn, volatility,
          sharpe, skew, kurtosis, totalinvestment, calls, call, optimised>>

Self ==
    [portfolio       |-> portfolio,
     stocks          |-> stocks,
     pf_stock_data   |-> pf_stock_data,
     expectedReturn  |-> expectedReturn,
     volatility      |-> volatility,
     sharpe          |-> sharpe,
     skew            |-> skew,
     kurtosis        |-> kurtosis,
     totalinvestment |-> totalinvestment]

\* the instance's fields after a call
Becomes(self) ==
    /\ portfolio' = self.portfolio
    /\ stocks' = self.stocks
    /\ pf_stock_data' = self.pf_stock_data
    /\ expectedReturn' = self.expectedReturn
    /\ volatility' = self.volatility
    /\ sharpe' = self.sharpe
    /\ skew' = self.skew
    /\ kurtosis' = self.kurtosis
    /\ totalinvestment' = self.totalinvestment

\* values a caller may assign to pf.totalinvestment
AssignedValues == {NoneValue, NotANumber, Number(0), Number(-1), Number(7)}

\* no buildPortfolio call: the instance was made by Portfolio()
NoCall == [pf_information |-> <<>>, kwargs |-> [k \in {} |-> k],
           outcome |-> "none"]

\* the investment tables handed to buildPortfolio
PfInformationSet ==
    {<<[Name |-> <<"A">>, FMV |-> 2]>>,
     <<[Name |-> <<"A">>, FMV |-> 2], [Name |-> <<"B">>, FMV |-> 3]>>,
     <<[Name |-> <<"B">>, FMV |-> 3], [Name |-> <<"A">>, FMV |-> -1]>>,
     <<[Name |-> <<"A">>, FMV |-> 2], [Name |-> <<"A", "L">>, FMV |-> 3]>>}

\* a price table with the given column labels
Frame(labels, idx) ==
    [columns |-> labels,
     index   |-> idx,
     data    |-> [j \in 1..Len(labels) |->
                    [i \in 1..Len(idx) |-> 100 + 10 * j + idx[i]]]]

\* the price tables handed to buildPortfolio as stock_data
StockDataSet ==
    {Frame(<<<<"A">>, <<"B">>>>, <<1, 2, 3>>),
     Frame(<<<<"A", "L">>, <<"A">>>>, <<1, 2, 3>>),
     Frame(<<_getQuandlDataColumnLabel(<<"WIKI/", "A">>, AdjClose),
             _getQuandlDataColumnLabel(<<"WIKI/", "A">>, <<"Close">>),
             _getQuandlDataColumnLabel(<<"WIKI/", "B">>, AdjClose)>>,
           <<1, 2, 3>>),
     Frame(<<_getQuandlDataColumnLabel(<<"A">>, AdjClose),
             _getQuandlDataColumnLabel(<<"A", "L">>, AdjClose)>>, <<1, 2>>),
     Frame(<<<<"C">>>>, <<1, 2>>)}

\* the keyword arguments with the given keys: names is the Name column of
\* pf_information, the dates are 2 and 3
MkKwargs(keys, pf_information, stock_data) ==
    [k \in keys |->
        CASE k = "names" -> NameValues(pf_information)
          [] k = "start_date" -> 2
          [] k = "end_date" -> 3
          [] k = "stock_data" -> stock_data]

InitFields ==
    /\ portfolio = NewPortfolio.portfolio
    /\ stocks = NewPortfolio.stocks
    /\ pf_stock_data = NewPortfolio.pf_stock_data
    /\ expectedReturn = NewPortfolio.expectedReturn
    /\ volatility = NewPortfolio.volatility
    /\ sharpe = NewPortfolio.sharpe
    /\ skew = NewPortfolio.skew
    /\ kurtosis = NewPortfolio.kurtosis
    /\ totalinvestment = NewPortfolio.totalinvestment
    /\ calls = <<>>
    /\ optimised = None

Init ==
    /\ InitFields
    /\ call = NoCall

\* entry of buildPortfolio(pf_information, **kwargs), after pf = Portfolio()
InitBuild ==
    /\ InitFields
    /\ \E pf_information \in PfInformationSet, stock_data \in StockDataSet,
          keys \in SUBSET Range(allInputArgs) :
          call = [pf_information |-> pf_information,
                  kwargs |-> MkKwargs(keys, pf_information, stock_data),
                  outcome |-> "pending"]

\* buildPortfolio runs to its return or to the exception it raises
BuildPortfolio(answered) ==
    /\ call.outcome = "pending"
    /\ \E r \in {buildPortfolio(call.pf_information, call.kwargs, answered)} :
          /\ Becomes(r.self)
          /\ calls' = r.made
          /\ call' = [call EXCEPT
                        !.outcome = IF r.err = OK THEN "returned" ELSE r.err]
    /\ UNCHANGED optimised

\* pf.addStock(stock)
AddStock(stock) ==
    /\ Len(portfolio) < MaxRows
    /\ \E r \in {addStock(Self, stock)} :
          /\ Becomes(r.self)
          /\ calls' = Append(calls, [stock |-> stock, err |-> r.err])
    /\ UNCHANGED <<call, optimised>>

\* pf.totalinvestment = val
AssignTotalinvestment(val) ==
    /\ Becomes(SetTotalinvestment(Self, val).self)
    /\ UNCHANGED <<calls, call, optimised>>

\* pf.compPfExpectedReturn(freq)
CompPfExpectedReturn(freq) ==
    /\ Becomes(compPfExpectedReturn(Self, freq).self)
    /\ UNCHANGED <<calls, call, optimised>>

\* pf.compPfVolatility(freq)
CompPfVolatility(freq) ==
    /\ Becomes(compPfVolatility(Self, freq).self)
    /\ UNCHANGED <<calls, call, optimised>>

\* pf.compPfSharpe(riskFreeRate)
CompPfSharpe(riskFreeRate) ==
    /\ Becomes(compPfSharpe(Self, riskFreeRate).self)
    /\ UNCHANGED <<calls, call, optimised>>

\* pf.optimisePortfolio(total_investment, num_trials, riskFreeRate, freq)
OptimisePortfolio(total_investment, num_trials, riskFreeRate, freq) ==
    /\ \E r \in {optimisePortfolio(Self, total_investment, num_trials,
                                    riskFreeRate, freq)} :
          /\ Becomes(r.self)
          /\ optimised' = Some([val |-> r.val, err |-> r.err])
    /\ UNCHANGED <<calls, call>>

NextAdd == \E stock \in StockSet : AddStock(stock)

NextAddWellFormed == \E stock \in WellFormedStocks : AddStock(stock)

Next ==
    \/ \E stock \in StockSet : AddStock(stock)
    \/ \E val \in AssignedValues : AssignTotalinvestment(val)
    \/ \E freq \in Freqs : CompPfExpectedReturn(freq)
    \/ \E freq \in Freqs : CompPfVolatility(freq)
    \/ \E r \in RiskFreeRates : CompPfSharpe(r)

NextBuild == \E answered \in BOOLEAN : BuildPortfolio(answered)

\* one call of buildPortfolio
SpecBuild == InitBuild /\ [][NextBuild]_vars

\* a portfolio filled by addStock calls only
SpecAdd == Init /\ [][NextAdd]_vars

\* a portfolio filled by addStock calls with well-formed stocks only
SpecAddWellFormed == Init /\ [][NextAddWellFormed]_vars

\* addStock calls and direct assignments to totalinvestment
NextAssign ==
    \/ \E stock \in StockSet : AddStock(stock)
    \/ \E val \in AssignedValues : AssignTotalinvestment(val)

SpecAssign == Init /\ [][NextAssign]_vars

\* a portfolio of well-formed stocks whose statistics are recomputed
NextStatistics ==
    \/ \E stock \in WellFormedStocks : AddStock(stock)
    \/ \E freq \in Freqs : CompPfExpectedReturn(freq)
    \/ \E freq \in Freqs : CompPfVolatility(freq)
    \/ \E r \in RiskFreeRates : CompPfSharpe(r)

SpecStatistics == Init /\ [][NextStatistics]_vars

\* the arguments of the optimisePortfolio calls
TotalInvestments == {NoneValue, Number(7)}
NumTrials == {0, 10000}

\* the lifetime of an instance: well-formed stocks are added, statistics are
\* recomputed and the portfolio is optimised, in any order
NextLifetime ==
    \/ \E stock \in WellFormedStocks : AddStock(stock)
    \/ \E freq \in Freqs : CompPfExpectedReturn(freq)
    \/ \E freq \in Freqs : CompPfVolatility(freq)
    \/ \E r \in RiskFreeRates : CompPfSharpe(r)
    \/ \E t \in TotalInvestments, n \in NumTrials :
          OptimisePortfolio(t, n, DefaultRiskFreeRate, DefaultFreq)

SpecLifetime == Init /\ [][NextLifetime]_vars

\* addStock calls, assignments to totalinvestment and recomputed statistics
Spec == Init /\ [][Next]_vars

\* ------------------------------------------------------------------------
\* Properties of Portfolio
\* ------------------------------------------------------------------------

\* the last addStock call and whether it raised
LastCall == calls[Len(calls)]
Raised(c) == c.err # OK
AllCompleted == \A k \in 1..Len(calls) : ~Raised(calls[k])

\* C1: a failed add is never partially applied: if addStock(stock) raises,
\* the asset mapping, the investment table and the aggregated price table
\* are what they were before the call.
C1_FailedAddNotApplied ==
    [][(Len(calls') > Len(calls) /\ Raised(calls'[Len(calls')]))
          => (stocks' = stocks /\ portfolio' = portfolio
              /\ pf_stock_data' = pf_stock_data)]_vars

\* C2: in every state reachable by addStock calls, successful or failing,
\* pf_stock_data has exactly one column per asset name of the stocks mapping:
\* as many columns as keys, and each key labels exactly one column.
C2_OneColumnPerAsset ==
    /\ Len(pf_stock_data.columns) = Cardinality(DOMAIN stocks)
    /\ \A n \in DOMAIN stocks :
          Cardinality({j \in 1..Len(pf_stock_data.columns) :
                          pf_stock_data.columns[j] = n}) = 1

\* C3: whenever the portfolio is non-empty, the weights of compPfWeights sum
\* to 1: totalinvestment equals the sum of the FMV entries of the investment
\* table, in every state reachable by addStock calls, raising ones included.
C3_WeightsSumToOne ==
    Len(portfolio) > 0 =>
        /\ compPfWeights(Self).err = OK
        /\ totalinvestment = Some(SumSeq(FMVColumn(portfolio)))

\* C4: whenever the stocks mapping holds at least one asset, totalinvestment
\* is set and strictly positive, for any sequence of addStock calls and
\* direct assignments to totalinvestment.
C4_TotalinvestmentPositive ==
    DOMAIN stocks # {} => (~IsNone(totalinvestment) /\ Val(totalinvestment) > 0)

\* the last addStock call was made on a portfolio already holding its name
DuplicateAdd ==
    /\ Len(calls) >= 2
    /\ \E i \in 1..(Len(calls) - 1) : calls[i].stock.name = LastCall.stock.name

\* rows of the investment table for name n
RowsOf(n) == {i \in 1..Len(portfolio) : portfolio[i].Name = n}

\* columns of the price table that belong to name n: the labels "<n>" and
\* "<n> - <data_label>"
LabelOfName(label, n) ==
    /\ Len(label) >= Len(n)
    /\ SubSeq(label, 1, Len(n)) = n
    /\ (Len(label) > Len(n) => label[Len(n) + 1] = " - ")
ColumnsOf(n) ==
    {j \in 1..Len(pf_stock_data.columns) :
        LabelOfName(pf_stock_data.columns[j], n)}

C6_MismatchedDatesRejected ==
    [][(/\ Len(calls') > Len(calls)
        /\ Len(pf_stock_data.columns) > 0
        /\ calls'[Len(calls')].stock.stock_data.index # pf_stock_data.index)
          => (/\ Raised(calls'[Len(calls')])
              /\ pf_stock_data'.index = pf_stock_data.index)]_vars

\* the freq a cached expected return / volatility was computed with
FreqOfExpectedReturn(er) == er.means[1].freq
FreqOfVolatility(vol) == vol.freq

\* C7: the Sharpe ratio is computed from an expectedReturn and a volatility
\* obtained with the same freq: whenever compPfSharpe has been evaluated, the
\* cached values it read were both computed with the same freq.
C7_SharpeSameFreq ==
    ~IsNone(sharpe) =>
        FreqOfExpectedReturn(Val(sharpe).er) = FreqOfVolatility(Val(sharpe).vol)

\* C8: a non-positive invested amount is rejected at the boundary: adding a
\* Stock whose FMV is <= 0 raises, also when the FMV sum stays positive, and
\* no reachable portfolio state contains an asset with FMV <= 0.
C8_NonPositiveFMVRejected ==
    /\ \A k \in 1..Len(calls) :
          calls[k].stock.investmentinfo.FMV <= 0 => Raised(calls[k])
    /\ \A n \in DOMAIN stocks : stocks[n].investmentinfo.FMV > 0
    /\ \A i \in 1..Len(portfolio) : portfolio[i].FMV > 0

\* C9: after successful addStock calls only, compPfWeights returns the
\* weights in insertion order, aligned with the price table: one entry per
\* column of pf_stock_data, the i-th being the FMV of the i-th added stock
\* over totalinvestment, and the i-th column holding that stock's prices.
C9_WeightsAlignedWithColumns ==
    (AllCompleted /\ Len(calls) > 0) =>
        LET weights == compPfWeights(Self) IN
        /\ weights.err = OK
        /\ Len(weights.val) = Len(pf_stock_data.columns)
        /\ Len(weights.val) = Len(calls)
        /\ \A i \in 1..Len(calls) :
              /\ weights.val[i] =
                    <<calls[i].stock.investmentinfo.FMV, Val(totalinvestment)>>
              /\ pf_stock_data.columns[i] = calls[i].stock.stock_data.columns[1]
              /\ pf_stock_data.data[i] = calls[i].stock.stock_data.data[1]

\* two adds with different invested amounts have completed
C9_Witness ==
    /\ Len(calls) = 2
    /\ AllCompleted
    /\ calls[1].stock.investmentinfo.FMV # calls[2].stock.investmentinfo.FMV
    /\ Len(pf_stock_data.columns) = 2

\* the stock of call k is in the instance: its name is a key of the mapping
\* and each of its price columns is in the aggregated table, label and prices
Kept(k) ==
    LET stock == calls[k].stock IN
    /\ stock.name \in DOMAIN stocks
    /\ \A j \in 1..Len(stock.stock_data.columns) :
          \E i \in 1..Len(pf_stock_data.columns) :
             /\ pf_stock_data.columns[i] = stock.stock_data.columns[j]
             /\ pf_stock_data.data[i] = stock.stock_data.data[j]

\* C11: there is no removal: once addStock(stock) has completed, stock.name
\* stays a key of the stocks mapping and its price column stays in
\* pf_stock_data in every later state, whatever addStock, comp* and
\* optimisePortfolio calls follow; no step removes a key of the mapping, a
\* column label of the table or a row of the investment table.
C11_NoRemoval ==
    /\ [](\A k \in 1..Len(calls) : ~Raised(calls[k]) => Kept(k))
    /\ [][/\ DOMAIN stocks \subseteq DOMAIN stocks'
          /\ Range(pf_stock_data.columns) \subseteq Range(pf_stock_data'.columns)
          /\ Len(portfolio') >= Len(portfolio)
          /\ \A i \in 1..Len(portfolio) :
                portfolio'[i].Name = portfolio[i].Name]_vars

\* a first add has completed and was followed by a second addStock call, by
\* a recomputation of the expected return with another freq and by an
\* optimisePortfolio call that returned
C11_Witness ==
    /\ Len(calls) = 2
    /\ ~Raised(calls[1])
    /\ Kept(1)
    /\ ~IsNone(expectedReturn)
    /\ FreqOfExpectedReturn(Val(expectedReturn)) = OtherFreq
    /\ ~IsNone(optimised)
    /\ Val(optimised).err = OK

\* C13: the cached Sharpe ratio is never stale: in every state of a non-empty
\* portfolio reached by addStock, compPfExpectedReturn(freq),
\* compPfVolatility(freq) and compPfSharpe(riskFreeRate) calls, the cached
\* sharpe is (cached expectedReturn - r) / cached volatility, with r the
\* riskFreeRate of the most recent Sharpe computation.
C13_SharpeNeverStale ==
    (Len(portfolio) > 0 /\ ~IsNone(sharpe))
        => /\ ~IsNone(expectedReturn)
           /\ ~IsNone(volatility)
           /\ Val(sharpe) = Val(sharpeRatio(expectedReturn, volatility,
                                            Val(sharpe).r).val)

\* ------------------------------------------------------------------------
\* Properties of buildPortfolio
\* ------------------------------------------------------------------------

\* the keyword combinations the docstring of buildPortfolio allows
AllowedCombination(keys) ==
    \/ ("names" \in keys /\ keys \subseteq {"names", "start_date", "end_date"})
    \/ keys = {"stock_data"}

Finished == call.outcome \notin {"none", "pending"}

\* C10: buildPortfolio allows only the keyword combinations
\* {names [, start_date] [, end_date]} and {stock_data}: every call with
\* another combination of the four keywords raises ValueError instead of
\* returning a portfolio.
C10_OnlyAllowedCombinations ==
    (Finished /\ ~AllowedCombination(DOMAIN call.kwargs))
        => call.outcome = "ValueError"

\* the call hands over a price table only, with distinct stock names,
\* positive invested amounts and, for every name, a column of the table that
\* _getStocksDataColumns resolves to it
FromDfResolvable ==
    LET names == NameValues(call.pf_information)
        reqnames == _correctQuandlRequestStockName(names)
    IN  /\ DOMAIN call.kwargs = {"stock_data"}
        /\ \A i, k \in 1..Len(names) : names[i] = names[k] => i = k
        /\ \A i \in 1..Len(names) :
              /\ call.pf_information[i].FMV > 0
              /\ PickColumn(call.kwargs["stock_data"], names, reqnames, i,
                            AdjClose) # <<>>

\* C12: _buildPortfolioFromDf with the default single data column gives each
\* asset one unambiguous column: for every row i of pf_information the Stock
\* built for name_i carries exactly one price column, the one labelled
\* name_i, also when one name is a substring of another, and the portfolio
\* returned has one column per name.
C12_OneColumnPerName ==
    (Finished /\ FromDfResolvable)
        => LET names == NameValues(call.pf_information) IN
           /\ call.outcome = "returned"
           /\ Len(calls) = Len(names)
           /\ \A i \in 1..Len(names) :
                 calls[i].stock.stock_data.columns = <<names[i]>>
           /\ pf_stock_data.columns = names

====
